---- MODULE Spec2Model ----
(***************************************************************************)
(* A model of the Flip 7 round engine: Card, Deck, PlayerHand,             *)
(* ActionHandler, Scoring and GameState.                                   *)
(*                                                                         *)
(* The deck is kept as a bag of cards.  Deck.reset() shuffles the list     *)
(* with random.shuffle and Deck.draw() pops its last element, so after a   *)
(* reset the next card drawn is any card still in the deck; before the     *)
(* first reset the list is in construction order and draw() pops the last  *)
(* card built.  `shuffled` tells the two apart.                            *)
(***************************************************************************)
EXTENDS Integers, Sequences, FiniteSets, Bags, TLC

\* ------------------------------------------------------------------ bounds
\* The wide deck holds the number values 0..MaxNumber, the small deck the
\* values 0..SmallMaxNumber, a hand of its own is dealt 0..HandMaxNumber.
MaxNumber == 6
SmallMaxNumber == 2
HandMaxNumber == 1
\* No number value has more than MaxCopies cards in a modelled deck.
MaxCopies == 2
\* The DupValues highest number values of a modelled deck keep their copies;
\* the values below have one card each.
DupValues == 1
\* Freeze, Flip Three and Second Chance cards in a modelled deck that holds
\* action cards (at most 3 of each).
FreezeCopies == 1
FlipThreeCopies == 1
SecondChanceCopies == 1
\* Modifier kinds in a modelled deck that holds modifiers (the last ones of
\* modifier_cards).
NumModifiers == 2
\* GameState(num_players) of the games with more than one player.
NumPlayers == 2
\* A hand of its own takes at most this many modifier and action cards.
MaxListLen == 3
\* A deck of its own gives at most this many cards after a reset (before the
\* first reset it is drawn to the last card).
MaxDraws == 3
PlayMaxNumber == 7

\* ------------------------------------------------------- program constants
\* Card.value of a card that is no number card (None).
NoValue == -1
\* has_flip_seven: len(number_cards) == 7.
FlipSevenCount == 7
\* calculate_score: total += 15.
FlipSevenBonus == 15
\* _create_standard_deck: range(13).
NumberRange == 13
\* handle_flip_three: min(3, cards_remaining).
FlipThreeDraws == 3
\* _create_standard_deck: (ActionType.FREEZE, 3) and the two lines below it.
ActionCopies == 3

Min(a, b) == IF a <= b THEN a ELSE b

\* ------------------------------------------------------------------- cards
NumberCard(v) ==
  [type |-> "NUMBER", value |-> v, action_type |-> "None",
   modifier_type |-> "None", modifier_value |-> 0]

ModifierCard(mt, mv) ==
  [type |-> "MODIFIER", value |-> NoValue, action_type |-> "None",
   modifier_type |-> mt, modifier_value |-> mv]

ActionCard(at) ==
  [type |-> "ACTION", value |-> NoValue, action_type |-> at,
   modifier_type |-> "None", modifier_value |-> 0]

\* The value draw() has none of: no card was drawn.
NoCard ==
  [type |-> "None", value |-> NoValue, action_type |-> "None",
   modifier_type |-> "None", modifier_value |-> 0]

\* modifier_cards of _create_standard_deck.
modifier_cards ==
  << <<"PLUS_2", 2>>, <<"PLUS_4", 4>>, <<"PLUS_6", 6>>,
     <<"PLUS_8", 8>>, <<"PLUS_10", 10>>, <<"TIMES_2", 0>> >>

\* action_cards of _create_standard_deck: the types, three cards each (cut
\* to the copies the modelled deck keeps).
action_cards ==
  << <<"FREEZE", Min(3, FreezeCopies)>>,
     <<"FLIP_THREE", Min(3, FlipThreeCopies)>>,
     <<"SECOND_CHANCE", Min(3, SecondChanceCopies)>> >>

\* Cards of number `value` in a deck of the values 0..max_number:
\* 1 if value <= 1 else value (cut to MaxCopies, and to 1 below the DupValues
\* highest values).
NumberCount(value, max_number) ==
  IF value <= 1 THEN 1
  ELSE IF value > max_number - DupValues THEN Min(value, MaxCopies)
  ELSE 1

RECURSIVE Repeat(_, _)
Repeat(x, n) == IF n <= 0 THEN << >> ELSE <<x>> \o Repeat(x, n - 1)

RECURSIVE NumberCardsFrom(_, _)
NumberCardsFrom(value, max_number) ==
  IF value > Min(max_number, NumberRange - 1) THEN << >>
  ELSE Repeat(NumberCard(value), NumberCount(value, max_number))
         \o NumberCardsFrom(value + 1, max_number)

RECURSIVE ModifierCardsFrom(_)
ModifierCardsFrom(i) ==
  IF i > Len(modifier_cards) THEN << >>
  ELSE <<ModifierCard(modifier_cards[i][1], modifier_cards[i][2])>>
         \o ModifierCardsFrom(i + 1)

RECURSIVE ActionCardsFrom(_)
ActionCardsFrom(i) ==
  IF i > Len(action_cards) THEN << >>
  ELSE Repeat(ActionCard(action_cards[i][1]), action_cards[i][2])
         \o ActionCardsFrom(i + 1)

\* Deck._create_standard_deck: the list of cards in construction order, cut
\* to `scale`: the number values 0..scale.max_number, with or without the
\* modifiers and the action cards.
StandardDeck(scale) ==
  NumberCardsFrom(0, scale.max_number)
    \o (IF scale.modifiers
        THEN ModifierCardsFrom(Len(modifier_cards)
                                 - Min(NumModifiers, Len(modifier_cards)) + 1)
        ELSE << >>)
    \o (IF scale.actions THEN ActionCardsFrom(1) ELSE << >>)

Scale(max_number, modifiers, actions) ==
  [max_number |-> max_number, modifiers |-> modifiers, actions |-> actions]

\* The games played: GameState(num_players) and the deck it builds.
\* NumPlayers players over the wide deck of number cards, where a hand can
\* reach seven numbers; NumPlayers players over the small deck with action
\* cards; one player over the small deck with modifiers and action cards.
Setups ==
  { [num_players |-> NumPlayers,
     cards |-> StandardDeck(Scale(MaxNumber, FALSE, FALSE))],
    [num_players |-> NumPlayers,
     cards |-> StandardDeck(Scale(SmallMaxNumber, FALSE, TRUE))],
    [num_players |-> 1,
     cards |-> StandardDeck(Scale(SmallMaxNumber, TRUE, TRUE))] }

\* The game a hand of its own lives beside.
HandSetup ==
  [num_players |-> 1, cards |-> StandardDeck(Scale(SmallMaxNumber, TRUE, TRUE))]

\* count of _create_standard_deck.
count(value) == IF value <= 1 THEN 1 ELSE value

\* The number cards of _create_standard_deck from `value` up.
RECURSIVE number_cards_from(_)
number_cards_from(value) ==
  IF value > NumberRange - 1 THEN << >>
  ELSE Repeat(NumberCard(value), count(value)) \o number_cards_from(value + 1)

\* The action cards of _create_standard_deck from the i-th type on.
RECURSIVE action_cards_from(_)
action_cards_from(i) ==
  IF i > Len(action_cards) THEN << >>
  ELSE Repeat(ActionCard(action_cards[i][1]), ActionCopies)
         \o action_cards_from(i + 1)

\* Deck._create_standard_deck as it is: every card, in construction order.
create_standard_deck ==
  number_cards_from(0) \o ModifierCardsFrom(1) \o action_cards_from(1)

RECURSIVE SeqToBag(_)
SeqToBag(s) ==
  IF s = << >> THEN EmptyBag ELSE SetToBag({Head(s)}) (+) SeqToBag(Tail(s))

\* The cards of a list.
CardsOf(s) == { s[i] : i \in 1..Len(s) }

\* Every card a hand of its own may be handed.
HandCards == CardsOf(StandardDeck(Scale(HandMaxNumber, TRUE, TRUE)))

\* -------------------------------------------------------------------- deck
\* Deck.cards_remaining.
cards_remaining(cards) == BagCardinality(cards)

\* The cards Deck.draw may return: any card left once shuffled, the last card
\* of the construction order before.
Drawable(cards, isShuffled, original) ==
  IF cards_remaining(cards) = 0 THEN {}
  ELSE IF isShuffled THEN BagToSet(cards)
  ELSE { original[cards_remaining(cards)] }

\* A variant of draw that returns the card and leaves it in the deck.
draw_keeps_card(cards, card) == cards

\* A variant of draw that takes every copy of the card out of the deck.
draw_takes_all_copies(cards, card) ==
  [c \in BagToSet(cards) \ {card} |-> CopiesIn(c, cards)]

\* Deck.draw: the deck without the card returned.
draw(cards, card) == cards (-) SetToBag({card})

\* A variant of reset that shuffles what is left of the deck.
reset_what_is_left(cards, original) == cards

\* Deck.reset: _cards is a copy of _original_cards again (then shuffled).
reset(cards, original) == SeqToBag(original)

\* ------------------------------------------------------------- player hand
\* PlayerHand(): the dataclass defaults.
EmptyHand ==
  [number_cards |-> {}, modifiers |-> << >>, action_cards |-> << >>,
   second_chance_available |-> FALSE, is_frozen |-> FALSE, has_busted |-> FALSE]

\* A variant of add_number_card that reports a bust without marking the hand.
add_number_card_bust_unmarked(h, card) ==
  IF card.value \in h.number_cards THEN
    IF h.second_chance_available
    THEN [hand |-> h, result |-> "DUPLICATE_WITH_SECOND_CHANCE"]
    ELSE [hand |-> h, result |-> "BUST"]
  ELSE [hand |-> [h EXCEPT !.number_cards = @ \cup {card.value}],
        result |-> "SUCCESS"]

\* A variant of add_number_card that spends the Second Chance on the spot.
add_number_card_spends_second_chance(h, card) ==
  IF card.value \in h.number_cards THEN
    IF h.second_chance_available
    THEN [hand |-> [h EXCEPT !.second_chance_available = FALSE],
          result |-> "DUPLICATE_WITH_SECOND_CHANCE"]
    ELSE [hand |-> [h EXCEPT !.has_busted = TRUE], result |-> "BUST"]
  ELSE [hand |-> [h EXCEPT !.number_cards = @ \cup {card.value}],
        result |-> "SUCCESS"]

\* PlayerHand.add_card, the branch of a number card.
add_number_card(h, card) ==
  IF card.value \in h.number_cards THEN
    IF h.second_chance_available
    THEN [hand |-> h, result |-> "DUPLICATE_WITH_SECOND_CHANCE"]
    ELSE [hand |-> [h EXCEPT !.has_busted = TRUE], result |-> "BUST"]
  ELSE [hand |-> [h EXCEPT !.number_cards = @ \cup {card.value}],
        result |-> "SUCCESS"]

\* A variant of add_card's action branch in which a Freeze card returns
\* FROZEN and leaves is_frozen as it was.
add_action_card_freeze_forgotten(h, card) ==
  IF card.action_type = "FREEZE"
  THEN [hand |-> h, result |-> "FROZEN"]
  ELSE IF card.action_type = "SECOND_CHANCE"
  THEN [hand |-> [h EXCEPT !.second_chance_available = TRUE,
                           !.action_cards = Append(@, card)],
        result |-> "SUCCESS"]
  ELSE [hand |-> [h EXCEPT !.action_cards = Append(@, card)],
        result |-> "SUCCESS"]

\* PlayerHand.add_card, the branch of an action card.
add_action_card(h, card) ==
  IF card.action_type = "FREEZE"
  THEN [hand |-> [h EXCEPT !.is_frozen = TRUE], result |-> "FROZEN"]
  ELSE IF card.action_type = "SECOND_CHANCE"
  THEN [hand |-> [h EXCEPT !.second_chance_available = TRUE,
                           !.action_cards = Append(@, card)],
        result |-> "SUCCESS"]
  ELSE [hand |-> [h EXCEPT !.action_cards = Append(@, card)],
        result |-> "SUCCESS"]

\* A variant of add_card where a frozen hand turns away action cards only.
add_card_frozen_to_actions_only(h, card) ==
  IF card.type = "NUMBER" THEN add_number_card(h, card)
  ELSE IF card.type = "MODIFIER" THEN
    [hand |-> [h EXCEPT !.modifiers = Append(@, card)], result |-> "SUCCESS"]
  ELSE IF h.is_frozen THEN [hand |-> h, result |-> "FROZEN"]
  ELSE IF card.type = "ACTION" THEN add_action_card(h, card)
  ELSE [hand |-> h, result |-> "SUCCESS"]

\* PlayerHand.add_card: the hand after the call and the AddCardResult.
add_card(h, card) ==
  IF h.is_frozen THEN [hand |-> h, result |-> "FROZEN"]
  ELSE IF card.type = "NUMBER" THEN add_number_card(h, card)
  ELSE IF card.type = "MODIFIER" THEN
    [hand |-> [h EXCEPT !.modifiers = Append(@, card)], result |-> "SUCCESS"]
  ELSE IF card.type = "ACTION" THEN add_action_card(h, card)
  ELSE [hand |-> h, result |-> "SUCCESS"]

\* The list without its element at index i (list.pop(i)).
RemoveAt(s, i) == SubSeq(s, 1, i - 1) \o SubSeq(s, i + 1, Len(s))

\* The first index of a SECOND_CHANCE card in the list, 0 if there is none.
FirstSecondChance(s) ==
  IF \E i \in 1..Len(s) : s[i].action_type = "SECOND_CHANCE"
  THEN CHOOSE i \in 1..Len(s) :
         /\ s[i].action_type = "SECOND_CHANCE"
         /\ \A j \in 1..(i - 1) : s[j].action_type # "SECOND_CHANCE"
  ELSE 0

\* The list without its SECOND_CHANCE cards.
RECURSIVE WithoutSecondChance(_)
WithoutSecondChance(s) ==
  IF s = << >> THEN << >>
  ELSE IF Head(s).action_type = "SECOND_CHANCE"
  THEN WithoutSecondChance(Tail(s))
  ELSE <<Head(s)>> \o WithoutSecondChance(Tail(s))

\* A variant of spend_second_chance that takes every Second Chance card out.
spend_second_chance_removes_all(h) ==
  [h EXCEPT !.second_chance_available = FALSE,
            !.action_cards = WithoutSecondChance(@)]

\* PlayerHand.use_second_chance, once the card is accepted: the flag is
\* cleared and the first SECOND_CHANCE card is popped.
spend_second_chance(h) ==
  [h EXCEPT !.second_chance_available = FALSE,
            !.action_cards = IF FirstSecondChance(@) = 0 THEN @
                             ELSE RemoveAt(@, FirstSecondChance(@))]

\* A variant of use_second_chance that spends the Second Chance before it
\* looks at the card.
use_second_chance_spends_first(h, duplicate_card) ==
  IF ~h.second_chance_available
  THEN [hand |-> h, raised |-> "ValueError: No Second Chance available"]
  ELSE IF duplicate_card.type # "NUMBER"
  THEN [hand |-> spend_second_chance(h),
        raised |-> "ValueError: Can only use Second Chance on number cards"]
  ELSE IF duplicate_card.value \notin h.number_cards
  THEN [hand |-> spend_second_chance(h),
        raised |-> "ValueError: Card is not in hand"]
  ELSE [hand |-> spend_second_chance(h), raised |-> "None"]

\* PlayerHand.use_second_chance: the hand after the call and the ValueError
\* raised ("None" when the call returns).
use_second_chance(h, duplicate_card) ==
  IF ~h.second_chance_available
  THEN [hand |-> h, raised |-> "ValueError: No Second Chance available"]
  ELSE IF duplicate_card.type # "NUMBER"
  THEN [hand |-> h,
        raised |-> "ValueError: Can only use Second Chance on number cards"]
  ELSE IF duplicate_card.value \notin h.number_cards
  THEN [hand |-> h, raised |-> "ValueError: Card is not in hand"]
  ELSE [hand |-> spend_second_chance(h), raised |-> "None"]

\* A variant of has_flip_seven that holds of 7 numbers or more.
has_flip_seven_or_more(h) == Cardinality(h.number_cards) >= FlipSevenCount

\* PlayerHand.has_flip_seven.
has_flip_seven(h) == Cardinality(h.number_cards) = FlipSevenCount

\* PlayerHand.clear.
clear(h) ==
  [number_cards |-> {}, modifiers |-> << >>, action_cards |-> << >>,
   second_chance_available |-> FALSE, is_frozen |-> FALSE, has_busted |-> FALSE]

\* ---------------------------------------------------------- action handler
\* ActionHandler.handle_freeze: the hand after the call.
handle_freeze(h) == [h EXCEPT !.is_frozen = TRUE]

\* The ValueErrors PlayerHand.use_second_chance raises.
SecondChanceErrors ==
  { "ValueError: No Second Chance available",
    "ValueError: Can only use Second Chance on number cards",
    "ValueError: Card is not in hand" }

\* A variant of handle_second_chance without the try/except.
handle_second_chance_uncaught(h, duplicate_card) ==
  IF ~h.second_chance_available
  THEN [hand |-> h, returned |-> FALSE, raised |-> "None"]
  ELSE LET u == use_second_chance(h, duplicate_card)
       IN  [hand |-> u.hand, returned |-> u.raised = "None",
            raised |-> u.raised]

\* ActionHandler.handle_second_chance: the hand after the call, the boolean
\* returned and the exception that leaves the call ("None": it returns);
\* except ValueError turns the ValueErrors of use_second_chance into False.
handle_second_chance(h, duplicate_card) ==
  IF ~h.second_chance_available
  THEN [hand |-> h, returned |-> FALSE, raised |-> "None"]
  ELSE LET u == use_second_chance(h, duplicate_card)
       IN  IF u.raised = "None"
           THEN [hand |-> u.hand, returned |-> TRUE, raised |-> "None"]
           ELSE IF u.raised \in SecondChanceErrors
           THEN [hand |-> u.hand, returned |-> FALSE, raised |-> "None"]
           ELSE [hand |-> u.hand, returned |-> FALSE, raised |-> u.raised]

\* ----------------------------------------------------------------- scoring
RECURSIVE SumSet(_)
SumSet(S) == IF S = {} THEN 0 ELSE LET x == CHOOSE y \in S : TRUE
                                   IN  x + SumSet(S \ {x})

\* has_times_two_modifier.
has_times_two_modifier(modifiers) ==
  \E i \in 1..Len(modifiers) : modifiers[i].modifier_type = "TIMES_2"

\* get_modifier_points.
RECURSIVE get_modifier_points(_)
get_modifier_points(modifiers) ==
  IF modifiers = << >> THEN 0
  ELSE (IF Head(modifiers).modifier_type # "TIMES_2"
        THEN Head(modifiers).modifier_value ELSE 0)
       + get_modifier_points(Tail(modifiers))

\* A variant of calculate_score where Times 2 doubles the modifier points too.
calculate_score_doubles_total(h, has_flip_seven_bonus) ==
  IF h.has_busted THEN 0
  ELSE LET total == IF has_times_two_modifier(h.modifiers)
                    THEN (SumSet(h.number_cards)
                            + get_modifier_points(h.modifiers)) * 2
                    ELSE SumSet(h.number_cards)
                           + get_modifier_points(h.modifiers)
       IN  IF has_flip_seven_bonus THEN total + FlipSevenBonus ELSE total

\* calculate_score.
calculate_score(h, has_flip_seven_bonus) ==
  IF h.has_busted THEN 0
  ELSE LET base_score == IF has_times_two_modifier(h.modifiers)
                         THEN SumSet(h.number_cards) * 2
                         ELSE SumSet(h.number_cards)
           total == base_score + get_modifier_points(h.modifiers)
       IN  IF has_flip_seven_bonus THEN total + FlipSevenBonus ELSE total


\* ---------------------------------------------------------------- strategy
\* The floats of the strategy are kept as exact fractions in lowest terms.
RECURSIVE GCD(_, _)
GCD(a, b) == IF b = 0 THEN a ELSE GCD(b, a % b)

Abs(a) == IF a < 0 THEN -a ELSE a

Rat(n, d) ==
  LET g == GCD(Abs(n), d) IN [num |-> n \div g, den |-> d \div g]

RatInt(n) == [num |-> n, den |-> 1]
RatAdd(a, b) ==
  LET g == GCD(a.den, b.den)
  IN  Rat(a.num * (b.den \div g) + b.num * (a.den \div g),
          (a.den \div g) * b.den)
RatSub(a, b) == RatAdd(a, [num |-> -b.num, den |-> b.den])
RatMul(a, b) ==
  LET x == Rat(a.num, b.den)
      y == Rat(b.num, a.den)
  IN  Rat(x.num * y.num, x.den * y.den)
\* A variant of the comparison that reads it the wrong way round.
RatLess_reversed(a, b) == b.num * a.den < a.num * b.den

\* A variant of the comparison that also holds of equal values.
RatLess_or_equal(a, b) == a.num * b.den <= b.num * a.den

RatLess(a, b) == a.num * b.den < b.num * a.den
RatLeq(a, b) == a.num * b.den <= b.num * a.den

\* Strategy._simulate_add_number: a new hand with the number added.
simulate_add_number(h, number) ==
  [h EXCEPT !.number_cards = @ \cup {number}]

\* Strategy._simulate_add_modifier: a new hand with the modifier appended.
simulate_add_modifier(h, card) ==
  [h EXCEPT !.modifiers = Append(@, card)]

\* The cards of the deck whose number the set holds: the sum of
\* counts["numbers"] over the numbers in it.
duplicate_count(cards, numbers) ==
  BagCardinality([c \in { d \in BagToSet(cards) :
                           d.type = "NUMBER" /\ d.value \in numbers }
                   |-> CopiesIn(c, cards)])

\* calculate_expected_value_of_hit: the score taken for a number that the
\* hand does not hold.
hit_score_number(h, number) ==
  LET temp_hand == simulate_add_number(h, number)
      score == calculate_score(temp_hand, has_flip_seven(temp_hand))
  IN  IF has_flip_seven(temp_hand) THEN score + 15 ELSE score

\* The accumulated bust probability of _estimate_flip_three_ev after the
\* draws left, from `total`; `free` tells that the Second Chance covers the
\* next draw.  2 stands for the early return at total_bust_prob >= 1.0.
RECURSIVE flip_three_bust(_, _, _, _)
flip_three_bust(draws, bust_prob, total, free) ==
  IF draws = 0 THEN total
  ELSE LET this == IF free /\ total.num = 0 THEN RatInt(0) ELSE bust_prob
           next == RatAdd(total, RatMul(this, RatSub(RatInt(1), total)))
       IN  IF RatLeq(RatInt(1), next) THEN RatInt(2)
           ELSE flip_three_bust(draws - 1, bust_prob, next, FALSE)

\* Strategy._estimate_flip_three_ev: the value returned and the hand it
\* leaves (hand.second_chance_available = False is written to the hand of
\* the game).
estimate_flip_three_ev(cards, h) ==
  IF cards_remaining(cards) <= 1
  THEN [value |-> RatInt(calculate_score(h, has_flip_seven(h))), hand |-> h]
  ELSE LET draws == Min(3, cards_remaining(cards))
           bust_prob == Rat(duplicate_count(cards, h.number_cards),
                            cards_remaining(cards))
           total == flip_three_bust(draws, bust_prob, RatInt(0),
                                    h.second_chance_available)
           temp_value == RatAdd(RatInt(SumSet(h.number_cards)),
                                Rat(13 * draws, 4))
           after == [h EXCEPT !.second_chance_available = FALSE]
       IN  IF RatLeq(RatInt(1), total) THEN [value |-> RatInt(0), hand |-> after]
           ELSE IF RatLeq(Rat(4, 5), total)
           THEN [value |-> RatInt(0), hand |-> after]
           ELSE [value |-> RatMul(temp_value, RatSub(RatInt(1), total)),
                 hand |-> after]

\* calculate_expected_value_of_hit: the score weighted for one kind of card
\* of the deck.
hit_score(cards, h, card) ==
  IF card.type = "NUMBER" THEN
    IF card.value \in h.number_cards
    THEN IF h.second_chance_available
         THEN RatInt(calculate_score(h, has_flip_seven(h)))
         ELSE RatInt(0)
    ELSE RatInt(hit_score_number(h, card.value))
  ELSE IF card.type = "MODIFIER"
  THEN RatInt(calculate_score(simulate_add_modifier(h, card),
                              has_flip_seven(h)))
  ELSE IF card.action_type = "FLIP_THREE"
  THEN estimate_flip_three_ev(cards, h).value
  ELSE RatInt(calculate_score(h, has_flip_seven(h)))

\* The kinds of cards count_remaining_cards tells apart, in the order the
\* three loops of calculate_expected_value_of_hit meet them.
card_kinds ==
  [n \in 1..NumberRange |-> NumberCard(n - 1)]
    \o [i \in 1..Len(modifier_cards) |->
          ModifierCard(modifier_cards[i][1], modifier_cards[i][2])]
    \o [i \in 1..Len(action_cards) |-> ActionCard(action_cards[i][1])]

\* total_ev over the kinds of cards lo..hi: prob * score, added up (a kind
\* the deck has no card of adds nothing).  The terms are added in halves:
\* the sum of exact fractions does not depend on the order.
RECURSIVE total_ev(_, _, _, _)
total_ev(cards, h, lo, hi) ==
  IF lo = hi
  THEN LET card == card_kinds[lo]
           prob == Rat(CopiesIn(card, cards), cards_remaining(cards))
       IN  IF CopiesIn(card, cards) = 0 THEN RatInt(0)
           ELSE RatMul(prob, hit_score(cards, h, card))
  ELSE LET mid == (lo + hi) \div 2
       IN  RatAdd(total_ev(cards, h, lo, mid), total_ev(cards, h, mid + 1, hi))

\* Strategy.calculate_expected_value_of_hit: the value returned and the hand
\* the call leaves.
calculate_expected_value_of_hit(cards, h) ==
  IF h.is_frozen \/ h.has_busted THEN [value |-> RatInt(0), hand |-> h]
  ELSE IF cards_remaining(cards) = 0 THEN [value |-> RatInt(0), hand |-> h]
  ELSE [value |-> total_ev(cards, h, 1, Len(card_kinds)),
        hand |-> IF ActionCard("FLIP_THREE") \in BagToSet(cards)
                 THEN estimate_flip_three_ev(cards, h).hand ELSE h]

\* A variant of _calculate_bust_probability that does not look at the Second
\* Chance.
bust_probability_ignores_second_chance(cards, h) ==
  IF cards_remaining(cards) = 0 THEN RatInt(0)
  ELSE Rat(duplicate_count(cards, h.number_cards), cards_remaining(cards))

\* Strategy._calculate_bust_probability.
bust_probability(cards, h) ==
  IF cards_remaining(cards) = 0 THEN RatInt(0)
  ELSE IF h.second_chance_available THEN RatInt(0)
  ELSE Rat(duplicate_count(cards, h.number_cards), cards_remaining(cards))

\* Strategy.recommend_action: the recommendation, the details and the hand
\* the call leaves (ev_hit, advantage and the bust_probability, a percentage,
\* are kept exact, not rounded).
recommend_action(cards, h) ==
  IF h.is_frozen \/ h.has_busted
  THEN [recommendation |-> "STAY",
        reason |-> "Cannot continue (frozen or busted)",
        current_score |-> 0, ev_hit |-> RatInt(0),
        bust_probability |-> RatInt(0), advantage |-> RatInt(0), hand |-> h]
  ELSE LET current_score == calculate_score(h, has_flip_seven(h))
           ev == calculate_expected_value_of_hit(cards, h)
           details == [current_score |-> current_score, ev_hit |-> ev.value,
                       bust_probability |->
                         RatMul(RatInt(100), bust_probability(cards, ev.hand)),
                       hand |-> ev.hand]
       IN  IF has_flip_seven(ev.hand)
           THEN details @@ [recommendation |-> "STAY",
                            reason |-> "Flip 7 achieved - take the bonus!",
                            advantage |-> RatInt(0)]
           ELSE IF RatLess(RatInt(current_score), ev.value)
           THEN details @@ [recommendation |-> "HIT", reason |-> "None",
                            advantage |-> RatSub(ev.value,
                                                 RatInt(current_score))]
           ELSE details @@ [recommendation |-> "STAY", reason |-> "None",
                            advantage |-> RatSub(RatInt(current_score),
                                                 ev.value)]

\* ------------------------------------------------------------------- state
VARIABLES
  original_cards,         \* GameState.deck._original_cards
  deck,                   \* GameState.deck._cards, as a bag
  shuffled,               \* whether Deck.reset has shuffled _cards
  players,                \* GameState.players, indexed from 0
  flip_seven_claimed,     \* GameState.flip_seven_claimed
  flip_seven_player_idx,  \* GameState.flip_seven_player_idx (NoPlayer: None)
  round_active,           \* GameState.round_active
  hand,                   \* a PlayerHand of its own, as the unit tests build
  frames,                 \* handle_flip_three calls in progress, outermost
                          \* first: the iterations each loop has left
  ft_player,              \* player_idx of the handle_flip_three in progress
  ft_results,             \* its results so far; "[" and "]" enclose the list
                          \* a nested call returned
  ret                     \* the last call made and what it returned or raised
                          \* (of its arguments, those of a draw that went
                          \* ahead)

gameVars == <<original_cards, deck, shuffled, players, flip_seven_claimed,
              flip_seven_player_idx, round_active>>
flipVars == <<frames, ft_player, ft_results>>
vars == <<original_cards, deck, shuffled, players, flip_seven_claimed, flip_seven_player_idx,
          round_active, hand, frames, ft_player, ft_results, ret>>

\* flip_seven_player_idx = None.
NoPlayer == -1

\* len(self.players).
num_players == Cardinality(DOMAIN players)

\* range(len(self.players)).
PlayerIdx == DOMAIN players

\* The player_idx arguments tried: the players, one below and one above.
AnyIdx == -1..num_players

\* Every card the deck was built with.
AllCards == CardsOf(original_cards)

\* What a call left behind: its name, arguments and outcome.
Ret(op, raised, player_idx, card, result, returned, results, scores) ==
  [op |-> op, raised |-> raised, player_idx |-> player_idx, card |-> card,
   result |-> result, returned |-> returned, results |-> results,
   scores |-> scores]

\* A call that returned nothing.
Returned(op) == Ret(op, "None", NoPlayer, NoCard, "None", FALSE, << >>, << >>)

\* A call that raised.
Raised(op, raised) ==
  Ret(op, raised, NoPlayer, NoCard, "None", FALSE, << >>, << >>)

NoRet == Returned("None")

\* No handle_flip_three is in progress: the caller may make its next call.
Idle == frames = << >>

\* GameState.__init__ of a game of Setups, and a PlayerHand().
InitGame(setup) ==
  /\ original_cards = setup.cards
  /\ deck = SeqToBag(setup.cards)
  /\ shuffled = FALSE
  /\ players = [i \in 0..(setup.num_players - 1) |-> EmptyHand]
  /\ flip_seven_claimed = FALSE
  /\ flip_seven_player_idx = NoPlayer
  /\ round_active = FALSE
  /\ hand = EmptyHand
  /\ frames = << >>
  /\ ft_player = NoPlayer
  /\ ft_results = << >>
  /\ ret = NoRet

Init == \E setup \in Setups : InitGame(setup)

\* ------------------------------------------------------------- game state
\* A variant of start_round that keeps the player recorded for the bonus.
StartRound_keeps_claimant ==
  /\ Idle
  /\ players' = [i \in PlayerIdx |-> clear(players[i])]
  /\ deck' = reset(deck, original_cards)
  /\ shuffled' = TRUE
  /\ flip_seven_claimed' = FALSE
  /\ round_active' = TRUE
  /\ ret' = Returned("start_round")
  /\ UNCHANGED <<original_cards, flip_seven_player_idx, hand, flipVars>>

\* A variant of start_round that leaves flip_seven_claimed as it was.
StartRound_keeps_claimed ==
  /\ Idle
  /\ players' = [i \in PlayerIdx |-> clear(players[i])]
  /\ deck' = reset(deck, original_cards)
  /\ shuffled' = TRUE
  /\ flip_seven_player_idx' = NoPlayer
  /\ round_active' = TRUE
  /\ ret' = Returned("start_round")
  /\ UNCHANGED <<original_cards, flip_seven_claimed, hand, flipVars>>

\* GameState.start_round (with Deck.reset).
StartRound ==
  /\ Idle
  /\ players' = [i \in PlayerIdx |-> clear(players[i])]
  /\ deck' = reset(deck, original_cards)
  /\ shuffled' = TRUE
  /\ flip_seven_claimed' = FALSE
  /\ flip_seven_player_idx' = NoPlayer
  /\ round_active' = TRUE
  /\ ret' = Returned("start_round")
  /\ UNCHANGED <<original_cards, hand, flipVars>>

\* A variant of draw_card_error that lets a draw go ahead in a round that
\* is over.
draw_card_error_any_round(active, hands, player_idx) ==
  IF player_idx < 0 \/ player_idx >= Cardinality(DOMAIN hands)
  THEN "ValueError: Invalid player index"
  ELSE IF hands[player_idx].is_frozen
  THEN "ValueError: Player is frozen and cannot draw"
  ELSE IF hands[player_idx].has_busted
  THEN "ValueError: Player has busted and cannot draw"
  ELSE "None"

\* A variant of draw_card_error that lets a frozen player draw.
draw_card_error_frozen_draws(active, hands, player_idx) ==
  IF ~active THEN "ValueError: Round is not active"
  ELSE IF player_idx < 0 \/ player_idx >= Cardinality(DOMAIN hands)
  THEN "ValueError: Invalid player index"
  ELSE IF hands[player_idx].has_busted
  THEN "ValueError: Player has busted and cannot draw"
  ELSE "None"

\* A variant of draw_card_error that lets a busted player draw.
draw_card_error_busted_draws(active, hands, player_idx) ==
  IF ~active THEN "ValueError: Round is not active"
  ELSE IF player_idx < 0 \/ player_idx >= Cardinality(DOMAIN hands)
  THEN "ValueError: Invalid player index"
  ELSE IF hands[player_idx].is_frozen
  THEN "ValueError: Player is frozen and cannot draw"
  ELSE "None"

\* The precondition checks of GameState.draw_card, in order: the ValueError
\* raised, "None" when the draw goes ahead.
draw_card_error(active, hands, player_idx) ==
  IF ~active THEN "ValueError: Round is not active"
  ELSE IF player_idx < 0 \/ player_idx >= Cardinality(DOMAIN hands)
  THEN "ValueError: Invalid player index"
  ELSE IF hands[player_idx].is_frozen
  THEN "ValueError: Player is frozen and cannot draw"
  ELSE IF hands[player_idx].has_busted
  THEN "ValueError: Player has busted and cannot draw"
  ELSE "None"

\* A variant of claims_flip_seven that claims the bonus one number early.
claims_flip_seven_one_short(h, claimed) ==
  Cardinality(h.number_cards) >= FlipSevenCount - 1 /\ ~claimed

\* GameState.draw_card: whether the draw claims the Flip 7 bonus.
claims_flip_seven(h, claimed) == has_flip_seven(h) /\ ~claimed

\* A variant of draw_card that returns a sentinel card from an empty deck.
DrawCard_returns_sentinel(player_idx) ==
  /\ Idle
  /\ LET err == draw_card_error(round_active, players, player_idx) IN
     IF err # "None"
     THEN /\ ret' = Raised("draw_card", err)
          /\ UNCHANGED gameVars
     ELSE IF cards_remaining(deck) = 0
     THEN /\ ret' = Ret("draw_card", "None", player_idx, NoCard, "SUCCESS",
                        FALSE, << >>, << >>)
          /\ UNCHANGED gameVars
     ELSE \E card \in Drawable(deck, shuffled, original_cards) :
            LET r == add_card(players[player_idx], card) IN
            /\ deck' = draw(deck, card)
            /\ players' = [players EXCEPT ![player_idx] = r.hand]
            /\ IF claims_flip_seven(r.hand, flip_seven_claimed)
               THEN /\ flip_seven_claimed' = TRUE
                    /\ flip_seven_player_idx' = player_idx
                    /\ round_active' = FALSE
               ELSE UNCHANGED <<flip_seven_claimed, flip_seven_player_idx,
                                round_active>>
            /\ ret' = Ret("draw_card", "None", player_idx, card, r.result,
                          FALSE, << >>, << >>)
            /\ UNCHANGED <<original_cards, shuffled>>
  /\ UNCHANGED <<hand, flipVars>>

\* GameState.draw_card.
DrawCard(player_idx) ==
  /\ Idle
  /\ LET err == draw_card_error(round_active, players, player_idx) IN
     IF err # "None"
     THEN /\ ret' = Raised("draw_card", err)
          /\ UNCHANGED gameVars
     ELSE IF cards_remaining(deck) = 0
     THEN /\ ret' = Raised("draw_card", "IndexError: Cannot draw from empty deck")
          /\ UNCHANGED gameVars
     ELSE \E card \in Drawable(deck, shuffled, original_cards) :
            LET r == add_card(players[player_idx], card) IN
            /\ deck' = draw(deck, card)
            /\ players' = [players EXCEPT ![player_idx] = r.hand]
            /\ IF claims_flip_seven(r.hand, flip_seven_claimed)
               THEN /\ flip_seven_claimed' = TRUE
                    /\ flip_seven_player_idx' = player_idx
                    /\ round_active' = FALSE
               ELSE UNCHANGED <<flip_seven_claimed, flip_seven_player_idx,
                                round_active>>
            /\ ret' = Ret("draw_card", "None", player_idx, card, r.result,
                          FALSE, << >>, << >>)
            /\ UNCHANGED <<original_cards, shuffled>>
  /\ UNCHANGED <<hand, flipVars>>

\* A variant of end_round that forgets who claimed the Flip 7 bonus.
EndRound_forgets_claim ==
  /\ Idle
  /\ round_active' = FALSE
  /\ flip_seven_claimed' = FALSE
  /\ flip_seven_player_idx' = NoPlayer
  /\ ret' = Ret("end_round", "None", NoPlayer, NoCard, "None", FALSE, << >>,
                [idx \in PlayerIdx |->
                   calculate_score(players[idx], idx = flip_seven_player_idx)])
  /\ UNCHANGED <<original_cards, deck, shuffled, players, hand, flipVars>>

\* A variant of end_round that grants the bonus to every hand once it is
\* claimed.
EndRound_bonus_for_all ==
  /\ Idle
  /\ round_active' = FALSE
  /\ ret' = Ret("end_round", "None", NoPlayer, NoCard, "None", FALSE, << >>,
                [idx \in PlayerIdx |->
                   calculate_score(players[idx], flip_seven_claimed)])
  /\ UNCHANGED <<original_cards, deck, shuffled, players, flip_seven_claimed,
                 flip_seven_player_idx, hand, flipVars>>

\* GameState.end_round.
EndRound ==
  /\ Idle
  /\ round_active' = FALSE
  /\ ret' = Ret("end_round", "None", NoPlayer, NoCard, "None", FALSE, << >>,
                [idx \in PlayerIdx |->
                   calculate_score(players[idx], idx = flip_seven_player_idx)])
  /\ UNCHANGED <<original_cards, deck, shuffled, players, flip_seven_claimed,
                 flip_seven_player_idx, hand, flipVars>>

\* A variant of is_round_over that is satisfied by one hand out of the round.
is_round_over_any_out ==
  IF flip_seven_claimed THEN TRUE
  ELSE \E i \in PlayerIdx : players[i].is_frozen \/ players[i].has_busted

\* GameState.is_round_over.
is_round_over ==
  IF flip_seven_claimed THEN TRUE
  ELSE \A i \in PlayerIdx : players[i].is_frozen \/ players[i].has_busted

\* A call of GameState.is_round_over.
IsRoundOver ==
  /\ Idle
  /\ ret' = Ret("is_round_over", "None", NoPlayer, NoCard, "None",
                is_round_over, << >>, << >>)
  /\ UNCHANGED <<gameVars, hand, flipVars>>

\* ActionHandler.handle_second_chance on a player's hand.
HandleSecondChance(player_idx, duplicate_card) ==
  /\ Idle
  /\ LET r == handle_second_chance(players[player_idx], duplicate_card) IN
     /\ players' = [players EXCEPT ![player_idx] = r.hand]
     /\ ret' = Ret("handle_second_chance", r.raised, NoPlayer, NoCard, "None",
                   r.returned, << >>, << >>)
  /\ UNCHANGED <<original_cards, deck, shuffled, flip_seven_claimed,
                 flip_seven_player_idx, round_active, hand, flipVars>>

\* ------------------------------------------------------------ flip three
\* The calls still running once every loop that has no iteration left has
\* returned: a nested call's list is appended to its caller's results.
RECURSIVE Unwind(_, _)
Unwind(fs, results) ==
  IF fs = << >> THEN [frames |-> fs, results |-> results]
  ELSE IF fs[Len(fs)] > 0 THEN [frames |-> fs, results |-> results]
  ELSE IF Len(fs) = 1 THEN [frames |-> << >>, results |-> results]
  ELSE Unwind(SubSeq(fs, 1, Len(fs) - 1), Append(results, "]"))

\* A variant of cards_to_draw that is one card short.
cards_to_draw_one_short(cards) ==
  Min(FlipThreeDraws - 1, cards_remaining(cards))

\* cards_to_draw of handle_flip_three.
cards_to_draw(cards) == Min(FlipThreeDraws, cards_remaining(cards))

\* A variant of may_draw that lets every iteration draw.
may_draw_always(cards) == TRUE

\* handle_flip_three: if game_state.deck.cards_remaining() > 0.
may_draw(cards) == cards_remaining(cards) > 0

\* Whether handle_flip_three leaves its loop after this card and result.
flip_three_breaks(card, result) ==
  IF card.action_type = "FREEZE" THEN TRUE
  ELSE result = "BUST" \/ result = "DUPLICATE_WITH_SECOND_CHANCE"

\* The state after one step of handle_flip_three: frames fs and results rs,
\* in a call made with `before` cards in the deck.
FlipThreeGoes(fs, rs, before) ==
  LET u == Unwind(fs, rs) IN
  /\ frames' = u.frames
  /\ ft_results' = IF u.frames = << >> THEN << >> ELSE u.results
  /\ ret' = [before |-> before]
               @@ Ret("handle_flip_three",
                      IF u.frames = << >> THEN "None" ELSE "Running",
                      NoPlayer, NoCard, "None", FALSE,
                      IF u.frames = << >> THEN u.results ELSE << >>, << >>)

\* ActionHandler.handle_flip_three is called: results = [], cards_to_draw.
CallFlipThree(player_idx) ==
  /\ Idle
  /\ ft_player' = player_idx
  /\ FlipThreeGoes(<<cards_to_draw(deck)>>, << >>, cards_remaining(deck))
  /\ UNCHANGED <<gameVars, hand>>

\* One iteration of the loop of the innermost handle_flip_three.
FlipThreeStep ==
  /\ ~Idle
  /\ UNCHANGED <<ft_player, hand, original_cards, shuffled,
                 flip_seven_claimed, flip_seven_player_idx, round_active>>
  /\ LET n == Len(frames)
         left == [frames EXCEPT ![n] = @ - 1]
     IN
     IF ~may_draw(deck)
     THEN /\ FlipThreeGoes(left, ft_results, ret.before)
          /\ UNCHANGED <<deck, players>>
     ELSE IF cards_remaining(deck) = 0
     THEN \* Deck.draw raises and every handle_flip_three in progress ends.
          /\ frames' = << >>
          /\ ft_results' = << >>
          /\ ret' = Raised("handle_flip_three",
                           "IndexError: Cannot draw from empty deck")
          /\ UNCHANGED <<deck, players>>
     ELSE \E card \in Drawable(deck, shuffled, original_cards) :
            /\ deck' = draw(deck, card)
            /\ IF card.action_type = "FLIP_THREE"
               THEN /\ players' = players
                    /\ FlipThreeGoes(Append(left, cards_to_draw(deck')),
                                     Append(ft_results, "["), ret.before)
               ELSE LET r == add_card(players[ft_player], card) IN
                    /\ players' = [players EXCEPT ![ft_player] = r.hand]
                    /\ FlipThreeGoes(
                         IF flip_three_breaks(card, r.result)
                         THEN [frames EXCEPT ![n] = 0] ELSE left,
                         Append(ft_results, r.result), ret.before)

\* ------------------------------------------------------ a hand of its own
\* The modifier and action cards a hand shows.
ListLen(h) == Len(h.modifiers) + Len(h.action_cards)

\* hand.add_card(card).
AddCard(card) ==
  LET r == add_card(hand, card) IN
  /\ ListLen(r.hand) <= MaxListLen
  /\ hand' = r.hand
  /\ ret' = Ret("add_card", "None", NoPlayer, card, r.result, FALSE, << >>, << >>)
  /\ UNCHANGED <<gameVars, flipVars>>

\* hand.use_second_chance(duplicate_card).
UseSecondChance(duplicate_card) ==
  LET u == use_second_chance(hand, duplicate_card) IN
  /\ hand' = u.hand
  /\ ret' = Ret("use_second_chance", u.raised, NoPlayer, duplicate_card, "None",
                FALSE, << >>, << >>)
  /\ UNCHANGED <<gameVars, flipVars>>

\* ActionHandler.handle_second_chance(hand, duplicate_card).
HandSecondChance(duplicate_card) ==
  LET r == handle_second_chance(hand, duplicate_card) IN
  /\ hand' = r.hand
  /\ ret' = Ret("handle_second_chance", r.raised, NoPlayer, duplicate_card,
                "None", r.returned, << >>, << >>)
  /\ UNCHANGED <<gameVars, flipVars>>

\* ActionHandler.handle_freeze(hand).
HandFreeze ==
  /\ hand' = handle_freeze(hand)
  /\ ret' = Returned("handle_freeze")
  /\ UNCHANGED <<gameVars, flipVars>>

\* hand.has_flip_seven().
HasFlipSeven ==
  /\ ret' = Ret("has_flip_seven", "None", NoPlayer, NoCard, "None",
                has_flip_seven(hand), << >>, << >>)
  /\ UNCHANGED <<hand, gameVars, flipVars>>

\* calculate_score(hand, has_flip_seven_bonus): the call and the score it
\* returned.
CalculateScore(has_flip_seven_bonus) ==
  /\ ret' = [op |-> "calculate_score", raised |-> "None",
             has_flip_seven_bonus |-> has_flip_seven_bonus,
             score |-> calculate_score(hand, has_flip_seven_bonus)]
  /\ UNCHANGED <<hand, gameVars, flipVars>>

\* hand.clear().
Clear ==
  /\ hand' = clear(hand)
  /\ ret' = Returned("clear")
  /\ UNCHANGED <<gameVars, flipVars>>

\* ------------------------------------------------------ a deck of its own
\* What a call on the deck left behind: its name, the exception raised, the
\* card returned, the draws that returned a card since the deck was built or
\* last reset, and cards_remaining() before the call.
DeckRet(op, raised, card, drawn, before) ==
  [op |-> op, raised |-> raised, card |-> card, drawn |-> drawn,
   before |-> before]

\* deck.draw().
DeckDraw ==
  /\ shuffled => ret.drawn < MaxDraws
  /\ IF cards_remaining(deck) = 0
     THEN /\ ret' = DeckRet("draw", "IndexError: Cannot draw from empty deck",
                            NoCard, ret.drawn, cards_remaining(deck))
          /\ UNCHANGED deck
     ELSE \E card \in Drawable(deck, shuffled, original_cards) :
            /\ deck' = draw(deck, card)
            /\ ret' = DeckRet("draw", "None", card, ret.drawn + 1,
                              cards_remaining(deck))
  /\ UNCHANGED <<original_cards, shuffled, players, flip_seven_claimed,
                 flip_seven_player_idx, round_active, hand, flipVars>>

\* deck.reset().
DeckReset ==
  /\ deck' = reset(deck, original_cards)
  /\ shuffled' = TRUE
  /\ ret' = DeckRet("reset", "None", NoCard, 0, cards_remaining(deck))
  /\ UNCHANGED <<original_cards, players, flip_seven_claimed,
                 flip_seven_player_idx, round_active, hand, flipVars>>

\* ------------------------------------------------------------------- specs
Next ==
  \/ StartRound
  \/ \E player_idx \in AnyIdx : DrawCard(player_idx)
  \/ EndRound
  \/ IsRoundOver
  \/ \E player_idx \in PlayerIdx, card \in AllCards :
       HandleSecondChance(player_idx, card)
  \/ \E player_idx \in PlayerIdx : CallFlipThree(player_idx)
  \/ FlipThreeStep

Spec == Init /\ [][Next]_vars

\* The game played through start_round, draw_card, handle_second_chance and
\* end_round alone: no handle_flip_three is ever called.
RoundNext ==
  \/ StartRound
  \/ \E player_idx \in AnyIdx : DrawCard(player_idx)
  \/ \E player_idx \in PlayerIdx, card \in AllCards :
       HandleSecondChance(player_idx, card)
  \/ EndRound

RoundSpec == Init /\ [][RoundNext]_vars

\* The game where a handle_flip_three that was called runs on: its loop is
\* straight-line code that nothing else interrupts.
FairSpec == Spec /\ WF_vars(FlipThreeStep)

\* The games played as handle_draw of gameplay_ui plays them: the games of
\* Setups, and one player over a deck of more than seven values with action
\* cards.
PlaySetups ==
  Setups \cup {[num_players |-> 1,
                cards |-> StandardDeck(Scale(PlayMaxNumber, FALSE, TRUE))]}

PlayInit == \E setup \in PlaySetups : InitGame(setup)

\* handle_draw: handle_flip_three(game_state, player_idx) is called when
\* draw_card(player_idx) has just returned a Flip Three card.
PlayFlipThree(player_idx) ==
  /\ ret.op = "draw_card"
  /\ ret.raised = "None"
  /\ ret.player_idx = player_idx
  /\ ret.card = ActionCard("FLIP_THREE")
  /\ CallFlipThree(player_idx)

PlayNext ==
  \/ StartRound
  \/ \E player_idx \in PlayerIdx : DrawCard(player_idx)
  \/ \E player_idx \in PlayerIdx : PlayFlipThree(player_idx)
  \/ FlipThreeStep
  \/ \E player_idx \in PlayerIdx, card \in AllCards :
       HandleSecondChance(player_idx, card)
  \/ EndRound

PlaySpec == PlayInit /\ [][PlayNext]_vars

\* The single-player games: the small deck with modifiers and action cards,
\* and the deck of more than seven values with action cards.
SoloSetups ==
  {[num_players |-> 1,
    cards |-> StandardDeck(Scale(SmallMaxNumber, TRUE, TRUE))],
   [num_players |-> 1,
    cards |-> StandardDeck(Scale(PlayMaxNumber, FALSE, TRUE))]}

SoloInit == \E setup \in SoloSetups : InitGame(setup)

\* draw_card has returned a Flip Three card that no handle_flip_three has
\* resolved yet.
PendingFlipThree ==
  /\ ret.op = "draw_card"
  /\ ret.raised = "None"
  /\ ret.card = ActionCard("FLIP_THREE")

\* play_round: draw_card(0) is called while the round is active and the
\* hand is neither frozen nor busted, once a drawn Flip Three is resolved.
SoloDraw ==
  /\ round_active
  /\ ~players[0].is_frozen
  /\ ~players[0].has_busted
  /\ ~PendingFlipThree
  /\ DrawCard(0)

SoloNext ==
  \/ StartRound
  \/ SoloDraw
  \/ PlayFlipThree(0)
  \/ FlipThreeStep
  \/ \E card \in AllCards : HandleSecondChance(0, card)
  \/ EndRound

SoloSpec == SoloInit /\ [][SoloNext]_vars

\* The games the strategy is asked about: the games of Setups, and one
\* player at the standard deck of 94 cards.
StrategySetups ==
  Setups \cup {[num_players |-> 1, cards |-> create_standard_deck]}

StrategyInit == \E setup \in StrategySetups : InitGame(setup)

FullDeck == original_cards = create_standard_deck

\* The fractions of the estimate stay within 32-bit integers:
\* at the standard deck the strategy is asked only about hands none of
\* whose numbers is left in the deck.
Exact(cards, h) ==
  FullDeck => duplicate_count(cards, h.number_cards) = 0

\* GameState.draw_card, at most MaxDraws times on the standard deck.
StrategyDraw(player_idx) ==
  /\ FullDeck =>
        cards_remaining(SeqToBag(original_cards)) - cards_remaining(deck)
          < MaxDraws
  /\ DrawCard(player_idx)

StrategyRet(op, player_idx, before, r) ==
  [op |-> op, raised |-> "None", player_idx |-> player_idx,
   before |-> before, r |-> r]

\* Strategy.recommend_action(game_state, player_idx).
RecommendAction(player_idx) ==
  /\ Exact(deck, players[player_idx])
  /\ LET r == recommend_action(deck, players[player_idx]) IN
     /\ players' = [players EXCEPT ![player_idx] = r.hand]
     /\ ret' = StrategyRet("recommend_action", player_idx,
                           players[player_idx], r)
  /\ UNCHANGED <<original_cards, deck, shuffled, flip_seven_claimed,
                 flip_seven_player_idx, round_active, hand, flipVars>>

\* Strategy.calculate_expected_value_of_hit(game_state, player_idx).
CalculateExpectedValueOfHit(player_idx) ==
  /\ Exact(deck, players[player_idx])
  /\ LET r == calculate_expected_value_of_hit(deck, players[player_idx]) IN
     /\ players' = [players EXCEPT ![player_idx] = r.hand]
     /\ ret' = StrategyRet("calculate_expected_value_of_hit", player_idx,
                           players[player_idx], r)
  /\ UNCHANGED <<original_cards, deck, shuffled, flip_seven_claimed,
                 flip_seven_player_idx, round_active, hand, flipVars>>

\* Strategy._calculate_bust_probability(game_state.deck, hand).
BustProbability(player_idx) ==
  /\ ret' = StrategyRet("bust_probability", player_idx, players[player_idx],
                        [value |-> bust_probability(deck, players[player_idx])])
  /\ UNCHANGED <<gameVars, hand, flipVars>>

StrategyNext ==
  \/ StartRound
  \/ \E player_idx \in PlayerIdx : StrategyDraw(player_idx)
  \/ \E player_idx \in PlayerIdx : RecommendAction(player_idx)
  \/ \E player_idx \in PlayerIdx : CalculateExpectedValueOfHit(player_idx)
  \/ \E player_idx \in PlayerIdx : BustProbability(player_idx)

StrategySpec == StrategyInit /\ [][StrategyNext]_vars

\* A PlayerHand driven directly, as the unit tests of the hand do.
HandInit == InitGame(HandSetup)

HandNext ==
  \/ \E card \in HandCards : AddCard(card)
  \/ \E card \in HandCards : UseSecondChance(card)
  \/ \E card \in HandCards : HandSecondChance(card)
  \/ HandFreeze
  \/ HasFlipSeven
  \/ \E has_flip_seven_bonus \in BOOLEAN : CalculateScore(has_flip_seven_bonus)
  \/ Clear

HandSpec == HandInit /\ [][HandNext]_vars

\* A PlayerHand given number cards of the 13 values, as the unit tests of
\* has_flip_seven do.
NumbersNext ==
  \/ \E value \in 0..(NumberRange - 1) : AddCard(NumberCard(value))
  \/ HasFlipSeven

NumbersSpec == HandInit /\ [][NumbersNext]_vars

\* Deck() driven directly, as the unit tests of the deck do.
DeckInit ==
  /\ original_cards = create_standard_deck
  /\ deck = SeqToBag(create_standard_deck)
  /\ shuffled = FALSE
  /\ players = [i \in 0..0 |-> EmptyHand]
  /\ flip_seven_claimed = FALSE
  /\ flip_seven_player_idx = NoPlayer
  /\ round_active = FALSE
  /\ hand = EmptyHand
  /\ frames = << >>
  /\ ft_player = NoPlayer
  /\ ft_results = << >>
  /\ ret = DeckRet("None", "None", NoCard, 0, 0)

DeckNext == DeckDraw \/ DeckReset

DeckSpec == DeckInit /\ [][DeckNext]_vars

\* ------------------------------------------------------------ properties
\* A hand is out of the round: frozen or busted.
Out(h) == h.is_frozen \/ h.has_busted

\* C1: once flip_seven_player_idx is set, no call other than start_round
\* changes it, and none but start_round makes round_active true again.
C1_FirstClaimWins ==
  [][(flip_seven_player_idx # NoPlayer /\ ret'.op # "start_round")
       => /\ flip_seven_player_idx' = flip_seven_player_idx
          /\ ~round_active']_vars

\* C1: a handle_flip_three that drew cards has returned after the claim.
C1_Witness ==
  /\ flip_seven_player_idx # NoPlayer
  /\ ret.op = "handle_flip_three"
  /\ ret.raised = "None"
  /\ ret.results # << >>

\* C2: a draw_card(i) that goes ahead and leaves hand i with exactly seven
\* numbers while no claim was made sets flip_seven_claimed, sets
\* flip_seven_player_idx to i and ends the round; while the claim stands
\* (until the next start_round) every draw_card raises and changes nothing.
C2_DrawClaimsFlipSeven ==
  [][/\ (/\ ret'.op = "draw_card"
         /\ ret'.raised = "None"
         /\ ~flip_seven_claimed
         /\ has_flip_seven(players'[ret'.player_idx]))
        => /\ flip_seven_claimed'
           /\ flip_seven_player_idx' = ret'.player_idx
           /\ ~round_active'
     /\ (flip_seven_claimed /\ ret'.op = "draw_card")
        => /\ ret'.raised # "None"
           /\ UNCHANGED gameVars]_vars

\* C2: a draw was refused after a hand of seven numbers claimed the bonus.
C2_Witness ==
  /\ flip_seven_claimed
  /\ flip_seven_player_idx \in PlayerIdx
  /\ has_flip_seven(players[flip_seven_player_idx])
  /\ ret.op = "draw_card"
  /\ ret.raised = "ValueError: Round is not active"

\* The ValueErrors of draw_card.
DrawCardErrors ==
  { "ValueError: Round is not active",
    "ValueError: Invalid player index",
    "ValueError: Player is frozen and cannot draw",
    "ValueError: Player has busted and cannot draw" }

\* C3: draw_card(i) raises a ValueError and leaves the game state as it was
\* when the round is not active, i is out of range, or hand i is frozen or
\* busted.
C3_DrawRefused ==
  [][\A i \in AnyIdx :
       (/\ \/ ~round_active
            \/ i \notin PlayerIdx
            \/ players[i].is_frozen
            \/ players[i].has_busted
        /\ DrawCard(i))
         => /\ ret'.raised \in DrawCardErrors
            /\ UNCHANGED gameVars]_vars

\* C3: a busted player was refused a card in an active round.
C3_Witness ==
  /\ round_active
  /\ ret.op = "draw_card"
  /\ ret.raised = "ValueError: Player has busted and cannot draw"
  /\ \E i \in PlayerIdx : players[i].has_busted /\ ~players[i].is_frozen

\* C4: a player's hand that is frozen or busted keeps every field through
\* every call but start_round.
C4_OutHandIsSealed ==
  [][\A i \in PlayerIdx :
       (Out(players[i]) /\ ret'.op # "start_round")
         => players'[i] = players[i]]_vars

\* C5: add_card on a frozen hand returns FROZEN whatever the card and leaves
\* the hand as it was.
C5_FrozenAddCard ==
  [][(ret'.op = "add_card" /\ hand.is_frozen)
       => /\ ret'.result = "FROZEN"
          /\ hand' = hand]_vars

\* C5: a frozen hand was handed a number card it does not hold.
C5_Witness ==
  /\ hand.is_frozen
  /\ ret.op = "add_card"
  /\ ret.card.type = "NUMBER"
  /\ ret.card.value \notin hand.number_cards
  /\ ret.result = "FROZEN"

\* C6: add_card of a number the hand holds, on a hand that is not frozen and
\* has no Second Chance, returns BUST and sets has_busted; the number cards,
\* modifiers and action cards (and the other flags) stay.
C6_DuplicateBusts ==
  [][(/\ ret'.op = "add_card"
      /\ ~hand.is_frozen
      /\ ~hand.second_chance_available
      /\ ret'.card.type = "NUMBER"
      /\ ret'.card.value \in hand.number_cards)
       => /\ ret'.result = "BUST"
          /\ hand' = [hand EXCEPT !.has_busted = TRUE]]_vars

\* C6: a duplicate number has just busted a hand.
C6_Witness ==
  /\ ret.op = "add_card"
  /\ ret.result = "BUST"
  /\ hand.has_busted
  /\ ret.card.value \in hand.number_cards

\* C7: add_card of a number the hand holds, on a hand that is not frozen and
\* has a Second Chance, returns DUPLICATE_WITH_SECOND_CHANCE and changes
\* nothing: the Second Chance is still there and has_busted is not set.
C7_DuplicateWithSecondChance ==
  [][(/\ ret'.op = "add_card"
      /\ ~hand.is_frozen
      /\ hand.second_chance_available
      /\ ret'.card.type = "NUMBER"
      /\ ret'.card.value \in hand.number_cards)
       => /\ ret'.result = "DUPLICATE_WITH_SECOND_CHANCE"
          /\ hand' = hand]_vars

\* C7: a duplicate number met a Second Chance, which the hand still has.
C7_Witness ==
  /\ ret.op = "add_card"
  /\ ret.result = "DUPLICATE_WITH_SECOND_CHANCE"
  /\ hand.second_chance_available
  /\ ~hand.has_busted

\* C8: use_second_chance raises "No Second Chance available" when the flag
\* is false, and an invalid-card ValueError when the flag is true and the
\* card is no number card or its value is not held; the hand stays as it was.
C8_UseSecondChanceFails ==
  [][ret'.op = "use_second_chance"
       => /\ ~hand.second_chance_available
               => /\ ret'.raised = "ValueError: No Second Chance available"
                  /\ hand' = hand
          /\ (/\ hand.second_chance_available
               /\ \/ ret'.card.type # "NUMBER"
                  \/ ret'.card.value \notin hand.number_cards)
               => /\ ret'.raised \in
                       { "ValueError: Can only use Second Chance on number cards",
                         "ValueError: Card is not in hand" }
                  /\ hand' = hand]_vars

\* C8: a hand with a Second Chance was asked to use it on a number it does
\* not hold, and still has it.
C8_Witness ==
  /\ ret.op = "use_second_chance"
  /\ ret.raised = "ValueError: Card is not in hand"
  /\ hand.second_chance_available
  /\ hand.action_cards # << >>

\* C9: a use_second_chance that returns clears second_chance_available and
\* takes exactly one SECOND_CHANCE card out of action_cards, the other cards
\* staying in place and in order; number_cards, modifiers, is_frozen and
\* has_busted stay.
C9_UseSecondChanceSpendsOne ==
  [][(ret'.op = "use_second_chance" /\ ret'.raised = "None")
       => /\ ~hand'.second_chance_available
          /\ \E i \in 1..Len(hand.action_cards) :
               /\ hand.action_cards[i].action_type = "SECOND_CHANCE"
               /\ hand'.action_cards = RemoveAt(hand.action_cards, i)
          /\ hand'.number_cards = hand.number_cards
          /\ hand'.modifiers = hand.modifiers
          /\ hand'.is_frozen = hand.is_frozen
          /\ hand'.has_busted = hand.has_busted]_vars

\* C9: a Second Chance was used and the hand still shows another Second
\* Chance card and a Flip Three card.
C9_Witness ==
  /\ ret.op = "use_second_chance"
  /\ ret.raised = "None"
  /\ ~hand.second_chance_available
  /\ \E i, j \in 1..Len(hand.action_cards) :
       /\ hand.action_cards[i].action_type = "SECOND_CHANCE"
       /\ hand.action_cards[j].action_type = "FLIP_THREE"

\* C10: handle_second_chance never raises; it returns True exactly when
\* use_second_chance on the same hand and card returns, with the same effect
\* on the hand; it returns False and leaves the hand as it was when there is
\* no Second Chance, the card is no number card or its value is not held.
C10_HandleSecondChance ==
  [][ret'.op = "handle_second_chance"
       => LET u == use_second_chance(hand, ret'.card) IN
          /\ ret'.raised = "None"
          /\ ret'.returned <=> (u.raised = "None")
          /\ ret'.returned => hand' = u.hand
          /\ ret'.returned <=> (/\ hand.second_chance_available
                                /\ ret'.card.type = "NUMBER"
                                /\ ret'.card.value \in hand.number_cards)
          /\ ~ret'.returned => hand' = hand]_vars

\* C10: handle_second_chance returned True and the Second Chance is spent.
C10_Witness ==
  /\ ret.op = "handle_second_chance"
  /\ ret.returned
  /\ ret.card.value \in hand.number_cards
  /\ ~hand.second_chance_available

\* C11: whatever the state it is called in, start_round leaves every hand
\* empty with its three flags false, the deck holding every card it was built
\* with, flip_seven_claimed false, flip_seven_player_idx unset and
\* round_active true.
C11_StartRoundResets ==
  [][ret'.op = "start_round"
       => /\ players' = [i \in PlayerIdx |-> EmptyHand]
          /\ deck' = SeqToBag(original_cards)
          /\ original_cards' = original_cards
          /\ ~flip_seven_claimed'
          /\ flip_seven_player_idx' = NoPlayer
          /\ round_active']_vars

\* C11: a round has been started (every start_round leaves this state; the
\* calls before it are those of any round, ended or not, claimed or not).
C11_Witness ==
  /\ ret.op = "start_round"
  /\ shuffled
  /\ round_active
  /\ cards_remaining(deck) = Len(original_cards)

\* C12: end_round returns a score for every player index, the
\* calculate_score of the hand with the bonus for the index recorded in
\* flip_seven_player_idx only; it leaves round_active false and the hands,
\* the deck and the flip-seven fields as they were, so a second end_round
\* returns the same scores.
C12_EndRoundScores ==
  [][ret'.op = "end_round"
       => /\ DOMAIN ret'.scores = PlayerIdx
          /\ \A idx \in PlayerIdx :
               ret'.scores[idx] =
                 calculate_score(players[idx],
                                 flip_seven_player_idx # NoPlayer
                                   /\ idx = flip_seven_player_idx)
          /\ ~round_active'
          /\ UNCHANGED <<players, deck, original_cards, flip_seven_claimed,
                         flip_seven_player_idx>>
          /\ ret.op = "end_round" => ret'.scores = ret.scores]_vars

\* C12: a round with two hands ended with the bonus in the score of the
\* player who claimed it and a score without it for a hand that holds cards.
C12_Witness ==
  /\ ret.op = "end_round"
  /\ flip_seven_player_idx \in PlayerIdx
  /\ \E i \in PlayerIdx :
       /\ i # flip_seven_player_idx
       /\ players[i].number_cards # {}
       /\ ~players[i].has_busted
       /\ ret.scores[i] = calculate_score(players[i], FALSE)
  /\ ret.scores[flip_seven_player_idx] >= FlipSevenBonus

\* C13: is_round_over returns true exactly when flip_seven_claimed is true
\* or every hand is frozen or busted.
C13_IsRoundOver ==
  ret.op = "is_round_over"
    => (ret.returned
          <=> (flip_seven_claimed \/ \A i \in PlayerIdx : Out(players[i])))

\* C13: is_round_over returned false with one of two hands out of the round.
C13_Witness ==
  /\ ret.op = "is_round_over"
  /\ ~ret.returned
  /\ \E i, j \in PlayerIdx : Out(players[i]) /\ ~Out(players[j])

\* The face values of the modifiers other than Times 2, added up.
RECURSIVE FlatModifierSum(_, _)
FlatModifierSum(modifiers, n) ==
  IF n = 0 THEN 0
  ELSE FlatModifierSum(modifiers, n - 1)
         + (IF modifiers[n].modifier_type = "TIMES_2" THEN 0
            ELSE modifiers[n].modifier_value)

\* Whether the hand shows a Times 2 modifier.
ShowsTimesTwo(h) ==
  \E i \in 1..Len(h.modifiers) : h.modifiers[i].modifier_type = "TIMES_2"

\* C14: calculate_score returns 0 for a busted hand whatever it holds and
\* whatever the bonus; for any other hand the sum of its numbers, doubled
\* exactly when it shows a Times 2, plus the face values of its other
\* modifiers, plus 15 exactly when the bonus is granted.
C14_CalculateScore ==
  ret.op = "calculate_score"
    => ret.score =
         IF hand.has_busted THEN 0
         ELSE (IF ShowsTimesTwo(hand) THEN 2 * SumSet(hand.number_cards)
               ELSE SumSet(hand.number_cards))
              + FlatModifierSum(hand.modifiers, Len(hand.modifiers))
              + (IF ret.has_flip_seven_bonus THEN 15 ELSE 0)

\* C14: a hand with numbers, a Times 2 and a flat modifier was scored with
\* the bonus.
C14_Witness ==
  /\ ret.op = "calculate_score"
  /\ ret.has_flip_seven_bonus
  /\ ~hand.has_busted
  /\ ShowsTimesTwo(hand)
  /\ FlatModifierSum(hand.modifiers, Len(hand.modifiers)) > 0
  /\ SumSet(hand.number_cards) > 0
  /\ ret.score = 2 * SumSet(hand.number_cards)
                   + FlatModifierSum(hand.modifiers, Len(hand.modifiers)) + 15

\* C15: a deck just built, and the deck after any reset, holds exactly 94
\* cards: one 0, one 1, n cards of each number n in 2..12, one of each of the
\* six modifiers, and three each of Freeze, Flip Three and Second Chance.
C15_DeckComposition ==
  (ret.op = "None" \/ ret.op = "reset")
    => /\ cards_remaining(deck) = 94
       /\ \A n \in 0..12 :
            CopiesIn(NumberCard(n), deck) = IF n <= 1 THEN 1 ELSE n
       /\ \A m \in { <<"PLUS_2", 2>>, <<"PLUS_4", 4>>, <<"PLUS_6", 6>>,
                      <<"PLUS_8", 8>>, <<"PLUS_10", 10>>, <<"TIMES_2", 0>> } :
            CopiesIn(ModifierCard(m[1], m[2]), deck) = 1
       /\ \A a \in { "FREEZE", "FLIP_THREE", "SECOND_CHANCE" } :
            CopiesIn(ActionCard(a), deck) = 3

\* C15: a deck drawn to its last card was reset and is whole again.
C15_Witness ==
  /\ ret.op = "reset"
  /\ ret.before = 0
  /\ cards_remaining(deck) = 94

\* C16: after N draws that returned a card from a deck just built or reset,
\* cards_remaining() is 94 - N; a draw takes out of the deck exactly the card
\* it returns; a draw from the empty deck raises and leaves it empty.
C16_DrawCounts ==
  /\ [](cards_remaining(deck) = 94 - ret.drawn)
  /\ [][ret'.op = "draw"
          => IF cards_remaining(deck) = 0
             THEN /\ ret'.raised = "IndexError: Cannot draw from empty deck"
                  /\ deck' = deck
                  /\ cards_remaining(deck') = 0
             ELSE /\ ret'.raised = "None"
                  /\ CopiesIn(ret'.card, deck) >= 1
                  /\ \A c \in BagToSet(deck) :
                       CopiesIn(c, deck') =
                         CopiesIn(c, deck) - (IF c = ret'.card THEN 1 ELSE 0)
                  /\ BagToSet(deck') \subseteq BagToSet(deck)]_vars

\* C16: the 94 cards were drawn and one more draw was refused.
C16_Witness ==
  /\ ret.op = "draw"
  /\ ret.raised = "IndexError: Cannot draw from empty deck"
  /\ ret.drawn = 94
  /\ cards_remaining(deck) = 0

\* The values of AddCardResult.
AddCardResults == { "SUCCESS", "BUST", "DUPLICATE_WITH_SECOND_CHANCE", "FROZEN" }

\* The results that end a flip three.
Interrupts == { "FROZEN", "BUST", "DUPLICATE_WITH_SECOND_CHANCE" }

\* A handle_flip_three has returned.
FlipThreeReturned == ret.op = "handle_flip_three" /\ ret.raised = "None"

\* The results of a handle_flip_three read in draw order, nesting ignored.
RECURSIVE Flat(_)
Flat(results) ==
  IF results = << >> THEN << >>
  ELSE IF Head(results) \in AddCardResults
  THEN <<Head(results)>> \o Flat(Tail(results))
  ELSE Flat(Tail(results))

\* C17: every element of the list handle_flip_three returns is a single
\* AddCardResult: the results of a nested flip three are spliced in, the
\* list holds no list.
C17_FlatResults ==
  FlipThreeReturned
    => \A i \in 1..Len(ret.results) : ret.results[i] \in AddCardResults

\* C18: in handle_flip_three a result of FROZEN, BUST or
\* DUPLICATE_WITH_SECOND_CHANCE, in the outer loop or in a nested call, is
\* the last result of the output, and no card leaves the deck after it
\* before the outermost call returns.
C18_InterruptStopsAll ==
  /\ [](FlipThreeReturned
          => \A i \in 1..(Len(Flat(ret.results)) - 1) :
               Flat(ret.results)[i] \notin Interrupts)
  /\ [][(/\ ~Idle
          /\ \E i \in 1..Len(ft_results) : ft_results[i] \in Interrupts)
         => deck' = deck]_vars

\* C19: a handle_flip_three that draws no Flip Three card and gets no
\* FROZEN, BUST or DUPLICATE_WITH_SECOND_CHANCE takes min(3, cards_remaining)
\* cards out of the deck and returns as many results.
C19_DrawsMinThree ==
  (FlipThreeReturned
     /\ \A i \in 1..Len(ret.results) : ret.results[i] = "SUCCESS")
    => /\ Len(ret.results) = (IF ret.before >= 3 THEN 3 ELSE ret.before)
       /\ cards_remaining(deck) = ret.before - Len(ret.results)

\* C19: a flip three called with two cards in the deck took both.
C19_Witness ==
  /\ FlipThreeReturned
  /\ ret.before = 2
  /\ ret.results = <<"SUCCESS", "SUCCESS">>
  /\ cards_remaining(deck) = 0

\* The Flip Three cards of a bag of cards.
FlipThreeCardsIn(cards) == CopiesIn(ActionCard("FLIP_THREE"), cards)

\* C20: a handle_flip_three that was called returns, whatever the order and
\* size of the deck; it never raises (no draw from an empty deck); the calls
\* nested in one another are at most one more than the Flip Three cards
\* drawn from the deck, so at most one more than the deck holds.
C20_FlipThreeTerminates ==
  /\ [](ret.op = "handle_flip_three"
          => ret.raised = "None" \/ ret.raised = "Running")
  /\ [](Len(frames) + FlipThreeCardsIn(deck)
          <= FlipThreeCardsIn(SeqToBag(original_cards)) + 1)
  /\ (~Idle ~> Idle)

\* C20: a flip three with a nested flip three returned with the deck empty.
C20_Witness ==
  /\ FlipThreeReturned
  /\ cards_remaining(deck) = 0
  /\ \E i \in 1..Len(ret.results) : ret.results[i] = "["

\* The calls of the strategy.
StrategyOps ==
  {"recommend_action", "calculate_expected_value_of_hit", "bust_probability"}

\* A step of the strategy: one of its calls returned.
StrategyStep == ret' # ret /\ ret'.op \in StrategyOps

\* C21: a call of recommend_action, calculate_expected_value_of_hit or
\* bust_probability leaves every field of every hand, the deck and the round
\* flags as they were before the call.
C21_StrategyIsPure ==
  [][StrategyStep
       => /\ players' = players
          /\ deck' = deck
          /\ original_cards' = original_cards
          /\ flip_seven_claimed' = flip_seven_claimed
          /\ flip_seven_player_idx' = flip_seven_player_idx
          /\ round_active' = round_active]_vars

\* The cards left in the deck that show one of the numbers.
RECURSIVE HeldLeft(_, _)
HeldLeft(cards, numbers) ==
  IF numbers = {} THEN 0
  ELSE LET n == CHOOSE x \in numbers : TRUE
       IN  CopiesIn(NumberCard(n), cards) + HeldLeft(cards, numbers \ {n})

BustProbabilityReturned == ret.op = "bust_probability"

\* C22: bust_probability lies in [0, 1]; it is 0 when the hand has a Second
\* Chance or the deck is empty, and otherwise the cards left in the deck
\* whose number the hand holds over the cards remaining; without a Second
\* Chance, one more distinct number in the hand against the same deck never
\* lowers it.
C22_BustProbability ==
  BustProbabilityReturned =>
    LET h == ret.before
        p == ret.r.value
    IN  /\ p.den > 0 /\ 0 <= p.num /\ p.num <= p.den
        /\ IF h.second_chance_available \/ cards_remaining(deck) = 0
           THEN p.num = 0
           ELSE p.num * cards_remaining(deck)
                  = HeldLeft(deck, h.number_cards) * p.den
        /\ ~h.second_chance_available
             => \A n \in (0..(NumberRange - 1)) \ h.number_cards :
                  RatLeq(p, bust_probability(deck, simulate_add_number(h, n)))

\* C22: a hand of two numbers and no Second Chance was given a probability
\* strictly between 0 and 1.
C22_Witness ==
  /\ BustProbabilityReturned
  /\ ~ret.before.second_chance_available
  /\ Cardinality(ret.before.number_cards) = 2
  /\ 0 < ret.r.value.num /\ ret.r.value.num < ret.r.value.den

\* C22: a hand that holds a number left in the deck has a Second Chance.
C22_SecondChanceCase ==
  /\ BustProbabilityReturned
  /\ ret.before.second_chance_available
  /\ HeldLeft(deck, ret.before.number_cards) > 0

\* C22: the deck is empty.
C22_EmptyDeckCase ==
  /\ BustProbabilityReturned
  /\ cards_remaining(deck) = 0
  /\ ret.before.number_cards # {}

RecommendActionReturned == ret.op = "recommend_action"

\* C23: recommend_action on an empty hand, neither frozen nor busted, and
\* the standard deck of 94 cards returns HIT: the current score is 0 and
\* ev_hit is above it.
C23_EmptyHandHits ==
  (/\ RecommendActionReturned
   /\ ret.before = EmptyHand
   /\ deck = SeqToBag(create_standard_deck))
    => /\ ret.r.recommendation = "HIT"
       /\ ret.r.current_score = 0
       /\ ret.r.ev_hit.num > 0 /\ ret.r.ev_hit.den > 0

\* C23: the call was made on the empty hand and the 94 cards, and ev_hit was
\* 709.25 / 94.
C23_Witness ==
  /\ RecommendActionReturned
  /\ ret.before = EmptyHand
  /\ deck = SeqToBag(create_standard_deck)
  /\ cards_remaining(deck) = 94
  /\ ret.r.ev_hit = Rat(2837, 376)

\* ev_hit of the recommendation is above its current_score.
EvAboveScore == ret.r.ev_hit.num > ret.r.current_score * ret.r.ev_hit.den

\* C24: recommend_action returns STAY with the cannot-continue reason for a
\* frozen or busted hand; else STAY with the bonus reason for a hand of
\* exactly 7 numbers; else HIT if ev_hit is above current_score and STAY if
\* not (STAY when they are equal), with an advantage that is not negative.
C24_RecommendAction ==
  RecommendActionReturned =>
    LET h == ret.before
        r == ret.r
    IN  IF Out(h)
        THEN /\ r.recommendation = "STAY"
             /\ r.reason = "Cannot continue (frozen or busted)"
        ELSE IF Cardinality(h.number_cards) = 7
        THEN /\ r.recommendation = "STAY"
             /\ r.reason = "Flip 7 achieved - take the bonus!"
        ELSE /\ r.recommendation = (IF EvAboveScore THEN "HIT" ELSE "STAY")
             /\ r.advantage.num >= 0 /\ r.advantage.den > 0

\* C24: a hand that holds numbers, neither out nor at 7, was told to STAY
\* with ev_hit equal to its current score.
C24_Witness ==
  /\ RecommendActionReturned
  /\ ~Out(ret.before)
  /\ ret.before.number_cards # {}
  /\ Cardinality(ret.before.number_cards) # 7
  /\ ret.r.ev_hit = RatInt(ret.r.current_score)
  /\ ret.r.current_score > 0
  /\ ret.r.recommendation = "STAY"

\* C24: the three other answers: a frozen or busted hand, a hand of 7
\* numbers, a HIT.
C24_OutCase == RecommendActionReturned /\ Out(ret.before)

C24_FlipSevenCase ==
  /\ RecommendActionReturned
  /\ Cardinality(ret.before.number_cards) = 7
  /\ ret.r.reason = "Flip 7 achieved - take the bonus!"

C24_HitCase ==
  /\ RecommendActionReturned
  /\ ret.before.number_cards # {}
  /\ ret.r.recommendation = "HIT"
  /\ ret.r.advantage.num > 0

\* C25: has_flip_seven() returns true if the hand holds exactly 7 numbers,
\* and false if it holds 0 to 6 or 8 to 13.
C25_HasFlipSeven ==
  ret.op = "has_flip_seven"
    => /\ Cardinality(hand.number_cards) = 7 => ret.returned
       /\ Cardinality(hand.number_cards) \in (0..6) \cup (8..13)
            => ~ret.returned

\* C25: has_flip_seven() returned false on a hand of 8 numbers.
C25_Witness ==
  /\ ret.op = "has_flip_seven"
  /\ Cardinality(hand.number_cards) = 8
  /\ ~ret.returned

\* C25: the hands of 6, 7 and 13 numbers.
C25_SixCase ==
  ret.op = "has_flip_seven" /\ Cardinality(hand.number_cards) = 6

C25_SevenCase ==
  ret.op = "has_flip_seven" /\ Cardinality(hand.number_cards) = 7
    /\ ret.returned

C25_AllCase ==
  ret.op = "has_flip_seven" /\ Cardinality(hand.number_cards) = 13

\* C26: when start_round, draw_card, handle_flip_three called after a Flip
\* Three card was drawn, handle_second_chance and end_round have returned,
\* no hand holds more than 7 numbers.
C26_AtMostSeven ==
  Idle => \A i \in PlayerIdx : Cardinality(players[i].number_cards) <= 7

\* C27: when those calls have returned and some hand holds exactly 7
\* numbers, flip_seven_claimed is true, flip_seven_player_idx is a player
\* and round_active is false.
C27_SevenEndsRound ==
  (/\ Idle
   /\ \E i \in PlayerIdx : Cardinality(players[i].number_cards) = 7)
    => /\ flip_seven_claimed
       /\ flip_seven_player_idx \in PlayerIdx
       /\ ~round_active

\* C28: in a calculate_expected_value_of_hit on a hand that can go on, the
\* score taken for a number left in the deck that the hand does not hold is
\* the score of the clone with the number added, plus 15 once if the clone
\* holds exactly 7 numbers and plus nothing if not.
C28_BonusOnce ==
  (ret.op = "calculate_expected_value_of_hit" /\ ~Out(ret.before))
    => \A n \in 0..(NumberRange - 1) :
         (CopiesIn(NumberCard(n), deck) > 0 /\ n \notin ret.before.number_cards)
           => LET temp_hand == simulate_add_number(ret.before, n)
              IN  hit_score_number(ret.before, n)
                    = calculate_score(temp_hand, FALSE)
                        + (IF Cardinality(temp_hand.number_cards) = 7
                           THEN 15 ELSE 0)

\* C29: every card a running handle_flip_three takes out of the deck is
\* applied to the hand of its player by add_card; a Flip Three card it draws
\* is so appended to the action_cards of the hand.
C29_DrawnCardsAreAdded ==
  [][(~Idle /\ deck' # deck)
       => \E card \in BagToSet(deck) :
            /\ deck' = draw(deck, card)
            /\ players'[ft_player] = add_card(players[ft_player], card).hand
            /\ card = ActionCard("FLIP_THREE")
                 => players'[ft_player].action_cards
                      = Append(players[ft_player].action_cards, card)]_vars

\* A draw_card that returned a card and a result.
DrawCardSucceeds ==
  vars' # vars /\ ret'.op = "draw_card" /\ ret'.raised = "None"

\* C30: a draw_card(i) that succeeds takes exactly one card out of the deck,
\* returns that card with the result of add_card of it on hand i, which is
\* the hand i has afterwards, and leaves the hand of every other player as
\* it was.
C30_DrawCardFrame ==
  [][DrawCardSucceeds
       => LET i == ret'.player_idx
              card == ret'.card
              r == add_card(players[i], card)
          IN  /\ i \in PlayerIdx
              /\ CopiesIn(card, deck) > 0
              /\ cards_remaining(deck') = cards_remaining(deck) - 1
              /\ \A c \in BagToSet(deck) :
                   CopiesIn(c, deck')
                     = CopiesIn(c, deck) - (IF c = card THEN 1 ELSE 0)
              /\ ret'.result = r.result
              /\ players'[i] = r.hand
              /\ \A j \in PlayerIdx \ {i} : players'[j] = players[j]]_vars

\* C30: player 1 drew a number card the deck had two of and took it into its
\* hand, while player 0 held cards of its own.
C30_Witness ==
  /\ ret.op = "draw_card" /\ ret.raised = "None"
  /\ ret.player_idx = 1
  /\ ret.result = "SUCCESS"
  /\ ret.card.type = "NUMBER"
  /\ ret.card.value \in players[1].number_cards
  /\ CopiesIn(ret.card, SeqToBag(original_cards)) = 2
  /\ CopiesIn(ret.card, deck) = 1
  /\ players[0].number_cards # {}
  /\ 0 \in PlayerIdx

EmptyDeckError == "IndexError: Cannot draw from empty deck"

\* C31: draw_card(i) for a player of the game, in an active round, with a
\* hand neither frozen nor busted and an empty deck, raises the error of the
\* empty deck, returns no card and no result, and leaves the hands, the
\* flip-seven flags and round_active as they were.
C31_EmptyDeckFails ==
  [][\A i \in PlayerIdx :
       (/\ cards_remaining(deck) = 0
        /\ draw_card_error(round_active, players, i) = "None"
        /\ DrawCard(i))
         => /\ ret'.raised = EmptyDeckError
            /\ ret'.card = NoCard
            /\ ret'.result = "None"
            /\ players' = players
            /\ deck' = deck
            /\ flip_seven_claimed' = flip_seven_claimed
            /\ flip_seven_player_idx' = flip_seven_player_idx
            /\ round_active' = round_active]_vars

\* C31: a draw_card raised the error of the empty deck in an active round,
\* beside a hand that holds cards and can go on.
C31_Witness ==
  /\ ret.op = "draw_card"
  /\ ret.raised = EmptyDeckError
  /\ round_active
  /\ cards_remaining(deck) = 0
  /\ \E i \in PlayerIdx : ~Out(players[i]) /\ players[i].number_cards # {}

\* C32: in a single-player game where draw_card is called only while the
\* round is active and the hand is neither frozen nor busted, and every
\* Flip Three drawn is resolved by handle_flip_three, no draw_card raises
\* the error of the empty deck.
C32_NoEmptyDeckInPlay ==
  ret.op = "draw_card" => ret.raised # EmptyDeckError

\* C32: the single player has taken the last card of the deck by draw_card
\* in a round still active, and its hand is frozen.
C32_Witness ==
  /\ num_players = 1
  /\ ret.op = "draw_card"
  /\ ret.raised = "None"
  /\ cards_remaining(deck) = 0
  /\ round_active
  /\ players[0].is_frozen

\* The accumulated bust probability of the estimate for the hand and the deck.
FlipThreeBust(cards, h) ==
  flip_three_bust(Min(3, cards_remaining(cards)),
                  Rat(duplicate_count(cards, h.number_cards),
                      cards_remaining(cards)),
                  RatInt(0), h.second_chance_available)

\* C33: the Flip Three estimate of a calculate_expected_value_of_hit is 0
\* when the accumulated bust probability reaches 1.0 or is at least 0.8,
\* and otherwise the sum of the numbers held plus 6.5 for each of the
\* min(3, cards_remaining) slots, times (1 - accumulated bust probability).
C33_FlipThreeEstimate ==
  (/\ ret.op = "calculate_expected_value_of_hit"
   /\ ~Out(ret.before)
   /\ CopiesIn(ActionCard("FLIP_THREE"), deck) > 0
   /\ cards_remaining(deck) >= 2)
    => LET total == FlipThreeBust(deck, ret.before)
           slots == Min(3, cards_remaining(deck))
           simulated == RatAdd(RatInt(SumSet(ret.before.number_cards)),
                               Rat(13 * slots, 2))
       IN  estimate_flip_three_ev(deck, ret.before).value
             = IF RatLeq(Rat(4, 5), total) THEN RatInt(0)
               ELSE RatMul(simulated, RatSub(RatInt(1), total))

\* C34: a recommend_action on a hand neither frozen nor busted whose
\* second_chance_available is true reports a bust_probability of 0.
C34_SecondChanceReportsZero ==
  (/\ RecommendActionReturned
   /\ ~Out(ret.before)
   /\ ret.before.second_chance_available)
    => ret.r.bust_probability.num = 0

\* The hand's action_cards hold a Second Chance card.
ShowsSecondChance(h) ==
  \E i \in 1..Len(h.action_cards) :
    h.action_cards[i] = ActionCard("SECOND_CHANCE")

\* C35: after any add_card, use_second_chance, handle_second_chance and
\* clear, second_chance_available is true exactly when the action_cards of
\* the hand hold at least one Second Chance card.
C35_SecondChanceShown ==
  hand.second_chance_available <=> ShowsSecondChance(hand)

\* C36: flip_seven_claimed is true exactly when flip_seven_player_idx is
\* set, and then it is the index of a player; in an active round
\* flip_seven_claimed is false.
C36_ClaimFlags ==
  /\ flip_seven_claimed <=> flip_seven_player_idx # NoPlayer
  /\ flip_seven_claimed => flip_seven_player_idx \in PlayerIdx
  /\ round_active => ~flip_seven_claimed

\* C36: the draw_card of player 1 claimed the Flip 7 and ended the round.
C36_Witness ==
  /\ ret.op = "draw_card"
  /\ ret.player_idx = 1
  /\ flip_seven_claimed
  /\ flip_seven_player_idx = 1
  /\ ~round_active

\* C36: a round started after a claim.
C36_NextRoundCase ==
  /\ ret.op = "start_round"
  /\ round_active
  /\ ~flip_seven_claimed

\* C37: in a state where is_round_over() is true, draw_card raises a
\* ValueError for every player index and changes nothing, also when
\* round_active is still true.
C37_RoundOverRefusesDraws ==
  /\ [](is_round_over
          => \A i \in AnyIdx :
               \/ ~round_active
               \/ i \notin PlayerIdx
               \/ players[i].is_frozen
               \/ players[i].has_busted)
  /\ [][(is_round_over /\ vars' # vars /\ ret'.op = "draw_card")
          => /\ ret'.raised \in DrawCardErrors
             /\ UNCHANGED gameVars]_vars

\* C37: a draw_card was refused in a round still active, with every hand
\* frozen or busted and no Flip 7 claimed.
C37_Witness ==
  /\ ret.op = "draw_card"
  /\ ret.raised \in {"ValueError: Player is frozen and cannot draw",
                      "ValueError: Player has busted and cannot draw"}
  /\ round_active
  /\ ~flip_seven_claimed
  /\ is_round_over
  /\ num_players = 2

\* The outermost handle_flip_three has just been called: nothing is drawn
\* yet.
FlipThreeJustCalled ==
  /\ Len(frames) = 1
  /\ ft_results = << >>
  /\ cards_remaining(deck) = ret.before

\* C38: a handle_flip_three that runs while round_active is false takes no
\* card out of the deck and changes no hand; nor does one called for a hand
\* that is frozen or busted, from its first draw on.
C38_FlipThreeGuarded ==
  [][(/\ ~Idle
      /\ \/ ~round_active
         \/ FlipThreeJustCalled /\ Out(players[ft_player]))
       => deck' = deck /\ players' = players]_vars

\* C39: in a game played through start_round, draw_card,
\* handle_second_chance and end_round alone, the hand of the player recorded
\* in flip_seven_player_idx holds exactly seven numbers and is not busted;
\* the scores end_round returns give that player the score of the hand plus
\* 15 and give every other player the score of the hand without the bonus.
C39_ClaimantHoldsSeven ==
  flip_seven_player_idx # NoPlayer
    => /\ flip_seven_player_idx \in PlayerIdx
       /\ Cardinality(players[flip_seven_player_idx].number_cards) = 7
       /\ ~players[flip_seven_player_idx].has_busted
       /\ ret.op = "end_round"
            => \A idx \in PlayerIdx :
                 LET h == players[idx]
                     base == IF has_times_two_modifier(h.modifiers)
                             THEN 2 * SumSet(h.number_cards)
                             ELSE SumSet(h.number_cards)
                     total == base + get_modifier_points(h.modifiers)
                 IN  ret.scores[idx] =
                       IF idx = flip_seven_player_idx THEN total + 15
                       ELSE IF h.has_busted THEN 0
                       ELSE total

\* C39: end_round has scored a round a hand of seven numbers won, beside a
\* hand that holds numbers and gets no bonus.
C39_Witness ==
  /\ ret.op = "end_round"
  /\ flip_seven_player_idx \in PlayerIdx
  /\ ret.scores[flip_seven_player_idx]
       = SumSet(players[flip_seven_player_idx].number_cards) + 15
  /\ \E idx \in PlayerIdx :
       /\ idx # flip_seven_player_idx
       /\ ~players[idx].has_busted
       /\ players[idx].number_cards # {}
       /\ ret.scores[idx] = SumSet(players[idx].number_cards)

====
